---- MODULE Spec2Model ----
(***************************************************************************)
(* Model of the Synopsys USB OTG device driver (src/src/bus.rs): the       *)
(* endpoint allocator, the FIFO layout computed by configure_all, the      *)
(* read/write/stall dispatch and the poll event translator, together with  *)
(* the hardware state (interrupt status, receive FIFO, endpoint latches)   *)
(* that poll reads and acknowledges.                                       *)
(***************************************************************************)
EXTENDS Integers, Sequences, FiniteSets, TLC

(* ------------------------------------------------------------------ *)
(* Program constants                                                    *)
(* ------------------------------------------------------------------ *)

\* EndpointAllocator::ENDPOINT_COUNT, also the length of the slot arrays.
ENDPOINT_COUNT == 4

\* The empirical margin added to the receive buffer total in configure_all.
RX_FIFO_MARGIN == 30

\* crate::ral::otg_fifo::FIFO_DEPTH_WORDS of the full-speed core.
FIFO_DEPTH_WORDS == 320

(* ------------------------------------------------------------------ *)
(* Bounds of the model                                                  *)
(* ------------------------------------------------------------------ *)

\* Largest endpoint index carried by an EndpointAddress given to the driver.
MaxIndex == 5

\* Number of alloc_ep calls explored by the allocator specification.
MaxAllocs == 4

\* max_packet_size values requested from alloc_ep (bytes).
PacketSizes == {8, 512}

Numbers == 0 .. (ENDPOINT_COUNT - 1)

Directions == {"In", "Out"}

\* Option<T>: None is the empty sequence, Some(x) is <<x>>.
None == << >>

Some(x) == << x >>

IsSome(o) == Len(o) = 1

Unwrap(o) == o[1]

\* Option<u8> of the requested endpoint number.
NumberOpts == {None} \cup {Some(n) : n \in 0 .. MaxIndex}

VARIABLES
    bitmap_in,      \* EndpointAllocator.bitmap_in, as the set of its set bits
    bitmap_out,     \* EndpointAllocator.bitmap_out
    endpoints_in,   \* [Option<EndpointIn>; 4], each holding its descriptor
    endpoints_out,  \* [Option<EndpointOut>; 4]
    memory,         \* EndpointMemoryAllocator: tx FIFO plan and rx word total
    buffer,         \* receive buffer of each OUT endpoint: state and size
    fifo,           \* GRXFSIZ and DIEPTXF0..5 as last programmed
    daintmsk,       \* DAINTMSK: unmasked IN endpoints (IEPM) and OUT (OEPM)
    configured,     \* endpoints activated by configure and not deconfigured
    dad,            \* DCFG.DAD, the device address
    gintsts,        \* latched GINTSTS bits: USBRST ENUMDNE WKUPINT USBSUSP
    rxfifo,         \* status entries queued in the receive FIFO
    xfrc,           \* IN endpoints whose DIEPINT.XFRC is latched
    pktcnt,         \* IN endpoints whose DIEPTSIZ.PKTCNT is not zero
    stalled,        \* addresses whose STALL bit is set
    core_id,        \* the CID register
    build,          \* how the crate was built: overflow checks, Tx FIFO count
    enabled,        \* enable() has run
    aborted,        \* the assert of configure_all has fired
    allocs,         \* number of alloc_ep calls made so far
    events,         \* number of hardware events delivered so far
    deferred,       \* history: a poll saw the head of rxfifo and left it
                    \* there because the endpoint's buffer was not Empty
    last            \* the last driver call and what it returned

vars == << bitmap_in, bitmap_out, endpoints_in, endpoints_out, memory, buffer,
           fifo, daintmsk, configured, dad, gintsts, rxfifo, xfrc, pktcnt,
           stalled, core_id, build, enabled, aborted, allocs, events, deferred,
           last >>

\* The registers and latches of the controller.
hardware == << fifo, daintmsk, configured, dad, gintsts, rxfifo, xfrc, pktcnt,
               stalled, core_id, build >>

allocator == << bitmap_in, bitmap_out, endpoints_in, endpoints_out, memory >>

(* ------------------------------------------------------------------ *)
(* EndpointAllocator                                                    *)
(* ------------------------------------------------------------------ *)

\* The numbers the automatic path scans: 1..ENDPOINT_COUNT-1, EP0 skipped.
AutoNumbers == 1 .. (ENDPOINT_COUNT - 1)

\* alloc_number without the occupancy test of an explicit request.
alloc_number_no_occupancy(bitmap, number) ==
    IF IsSome(number)
    THEN IF Unwrap(number) >= ENDPOINT_COUNT
         THEN [res |-> "InvalidEndpoint", num |-> -1, bitmap |-> bitmap]
         ELSE [res |-> "Ok", num |-> Unwrap(number),
               bitmap |-> bitmap \cup {Unwrap(number)}]
    ELSE IF \E n \in AutoNumbers : n \notin bitmap
         THEN LET first == CHOOSE n \in AutoNumbers :
                              /\ n \notin bitmap
                              /\ \A m \in AutoNumbers : m < n => m \in bitmap
              IN  [res |-> "Ok", num |-> first, bitmap |-> bitmap \cup {first}]
         ELSE [res |-> "EndpointOverflow", num |-> -1, bitmap |-> bitmap]

\* alloc_number whose automatic scan starts at 0 instead of 1.
alloc_number_scan_from_zero(bitmap, number) ==
    IF IsSome(number)
    THEN IF Unwrap(number) >= ENDPOINT_COUNT
         THEN [res |-> "InvalidEndpoint", num |-> -1, bitmap |-> bitmap]
         ELSE IF Unwrap(number) \notin bitmap
              THEN [res |-> "Ok", num |-> Unwrap(number),
                    bitmap |-> bitmap \cup {Unwrap(number)}]
              ELSE [res |-> "InvalidEndpoint", num |-> -1, bitmap |-> bitmap]
    ELSE IF \E n \in Numbers : n \notin bitmap
         THEN LET first == CHOOSE n \in Numbers :
                              /\ n \notin bitmap
                              /\ \A m \in Numbers : m < n => m \in bitmap
              IN  [res |-> "Ok", num |-> first, bitmap |-> bitmap \cup {first}]
         ELSE [res |-> "EndpointOverflow", num |-> -1, bitmap |-> bitmap]

\* alloc_number that marks the last scanned number before it gives up.
alloc_number_marks_on_overflow(bitmap, number) ==
    IF IsSome(number)
    THEN IF Unwrap(number) >= ENDPOINT_COUNT
         THEN [res |-> "InvalidEndpoint", num |-> -1, bitmap |-> bitmap]
         ELSE IF Unwrap(number) \notin bitmap
              THEN [res |-> "Ok", num |-> Unwrap(number),
                    bitmap |-> bitmap \cup {Unwrap(number)}]
              ELSE [res |-> "InvalidEndpoint", num |-> -1, bitmap |-> bitmap]
    ELSE IF \E n \in AutoNumbers : n \notin bitmap
         THEN LET first == CHOOSE n \in AutoNumbers :
                              /\ n \notin bitmap
                              /\ \A m \in AutoNumbers : m < n => m \in bitmap
              IN  [res |-> "Ok", num |-> first, bitmap |-> bitmap \cup {first}]
         ELSE [res |-> "EndpointOverflow", num |-> -1, bitmap |-> bitmap \cup {0}]

\* EndpointAllocator::alloc_number: the result, the number and the new bitmap.
alloc_number(bitmap, number) ==
    IF IsSome(number)
    THEN IF Unwrap(number) >= ENDPOINT_COUNT
         THEN [res |-> "InvalidEndpoint", num |-> -1, bitmap |-> bitmap]
         ELSE IF Unwrap(number) \notin bitmap
              THEN [res |-> "Ok", num |-> Unwrap(number),
                    bitmap |-> bitmap \cup {Unwrap(number)}]
              ELSE [res |-> "InvalidEndpoint", num |-> -1, bitmap |-> bitmap]
    ELSE IF \E n \in AutoNumbers : n \notin bitmap
         THEN LET first == CHOOSE n \in AutoNumbers :
                              /\ n \notin bitmap
                              /\ \A m \in AutoNumbers : m < n => m \in bitmap
              IN  [res |-> "Ok", num |-> first, bitmap |-> bitmap \cup {first}]
         ELSE [res |-> "EndpointOverflow", num |-> -1, bitmap |-> bitmap]

\* EndpointAllocator::alloc: the descriptor built for the allocated number.
alloc(number, direction, max_packet_size) ==
    [address |-> [dir |-> direction, index |-> number],
     max_packet_size |-> max_packet_size]

\* Size in 32-bit words of a buffer of `size` bytes.
SizeWords(size) == (size + 3) \div 4

\* EndpointMemoryAllocator::allocate_tx_buffer, when it accepts the request.
allocate_tx_buffer(mem, ep_number, size) ==
    [mem EXCEPT !.tx_fifo_size_words[ep_number] = SizeWords(size)]

\* EndpointMemoryAllocator::allocate_rx_buffer, when it accepts the request.
allocate_rx_buffer(mem, size) ==
    [mem EXCEPT !.rx_words = @ + SizeWords(size)]

\* What `last` holds before any call: every field at its neutral value.
NoCall ==
    [op |-> "none", res |-> "none", dir |-> "none", num |-> -1, seq |-> 0,
     req |-> None,
     sts |-> {}, entry |-> None, popped |-> FALSE, fill |-> "none",
     rearm |-> {}, txflush |-> FALSE,
     ep_out |-> {}, ep_in_complete |-> {}, ep_setup |-> {}]

\* The record a call leaves in `last`.
Call(op, res, dir, num) ==
    [NoCall EXCEPT !.op = op, !.res = res, !.dir = dir, !.num = num]

\* The record poll leaves in `last`; seq alternates so that two polls in a
\* row never leave the same record.
PollCall(res) ==
    [NoCall EXCEPT !.op = "poll", !.res = res, !.seq = 1 - last.seq]

\* What alloc_ep leaves in `last`: its result and the number it was asked for.
AllocCall(res, dir, num, number) ==
    [Call("alloc_ep", res, dir, num) EXCEPT !.req = number]

\* EndpointAllocator::alloc_in followed by the store of alloc_ep.
alloc_in(number, max_packet_size, mem_ok) ==
    LET r == alloc_number(bitmap_in, number)
    IN  /\ bitmap_in' = r.bitmap
        /\ UNCHANGED << bitmap_out, endpoints_out >>
        /\ IF r.res # "Ok"
           THEN /\ last' = AllocCall(r.res, "In", -1, number)
                /\ UNCHANGED << endpoints_in, memory >>
           ELSE IF ~mem_ok
                THEN /\ last' = AllocCall("EndpointMemoryOverflow", "In", -1, number)
                     /\ UNCHANGED << endpoints_in, memory >>
                ELSE /\ memory' = allocate_tx_buffer(memory, r.num, max_packet_size)
                     /\ endpoints_in' =
                            [endpoints_in EXCEPT
                                ![r.num] = Some(alloc(r.num, "In", max_packet_size))]
                     /\ last' = AllocCall("Ok", "In", r.num, number)

\* alloc_out that clears the bitmap bit again when the memory allocator
\* rejects the buffer.
alloc_out_rolls_back(number, max_packet_size, mem_ok) ==
    LET r == alloc_number(bitmap_out, number)
    IN  /\ UNCHANGED << bitmap_in, endpoints_in >>
        /\ IF r.res # "Ok"
           THEN /\ last' = AllocCall(r.res, "Out", -1, number)
                /\ bitmap_out' = r.bitmap
                /\ UNCHANGED << endpoints_out, memory >>
           ELSE IF ~mem_ok
                THEN /\ last' = AllocCall("EndpointMemoryOverflow", "Out", -1, number)
                     /\ UNCHANGED << bitmap_out, endpoints_out, memory >>
                ELSE /\ memory' = allocate_rx_buffer(memory, max_packet_size)
                     /\ bitmap_out' = r.bitmap
                     /\ endpoints_out' =
                            [endpoints_out EXCEPT
                                ![r.num] = Some(alloc(r.num, "Out", max_packet_size))]
                     /\ last' = AllocCall("Ok", "Out", r.num, number)

\* EndpointAllocator::alloc_out followed by the store of alloc_ep.
alloc_out(number, max_packet_size, mem_ok) ==
    LET r == alloc_number(bitmap_out, number)
    IN  /\ bitmap_out' = r.bitmap
        /\ UNCHANGED << bitmap_in, endpoints_in >>
        /\ IF r.res # "Ok"
           THEN /\ last' = AllocCall(r.res, "Out", -1, number)
                /\ UNCHANGED << endpoints_out, memory >>
           ELSE IF ~mem_ok
                THEN /\ last' = AllocCall("EndpointMemoryOverflow", "Out", -1, number)
                     /\ UNCHANGED << endpoints_out, memory >>
                ELSE /\ memory' = allocate_rx_buffer(memory, max_packet_size)
                     /\ endpoints_out' =
                            [endpoints_out EXCEPT
                                ![r.num] = Some(alloc(r.num, "Out", max_packet_size))]
                     /\ last' = AllocCall("Ok", "Out", r.num, number)

\* UsbBus::alloc_ep / EndpointAllocator::alloc_ep.  mem_ok is the answer of
\* the endpoint memory allocator to the buffer request.
AllocEp(ep_dir, number, max_packet_size, mem_ok) ==
    /\ ~aborted
    /\ ~enabled
    /\ allocs < MaxAllocs
    /\ allocs' = allocs + 1
    /\ IF ep_dir = "Out"
       THEN alloc_out(number, max_packet_size, mem_ok)
       ELSE alloc_in(number, max_packet_size, mem_ok)
    /\ UNCHANGED << buffer, hardware, enabled, aborted, events, deferred >>

(* ------------------------------------------------------------------ *)
(* configure_all / deconfigure_all / reset                              *)
(* ------------------------------------------------------------------ *)

\* Numbers whose slot holds an endpoint.
AllocatedIn == {n \in Numbers : IsSome(endpoints_in[n])}

AllocatedOut == {n \in Numbers : IsSome(endpoints_out[n])}

\* Width in bits of the word counts the endpoint memory allocator reports
\* and configure_all adds up (cast to u32 only where a register is written).
WordBits == 16

WordModulus == 2 ^ WordBits

\* Number of transmit FIFOs configure_all programs: four, and six when the
\* crate is built for stm32f446xx.
TxFifoCounts == {4, 6}

\* The builds of the crate: with or without integer overflow checks, for
\* either number of transmit FIFOs.
Builds == [overflow_checks : BOOLEAN, tx_fifos : TxFifoCounts]

\* The build the driver is run in where no sum can overflow.
DriverBuild == [overflow_checks |-> FALSE, tx_fifos |-> 4]

\* The DIEPTXF registers of the controller.
TxFifoRegisters ==
    0 .. ((CHOOSE m \in TxFifoCounts : \A t \in TxFifoCounts : t <= m) - 1)

\* EndpointMemoryAllocator::total_rx_buffer_size_words.
total_rx_buffer_size_words(mem) == mem.rx_words

\* EndpointMemoryAllocator::tx_fifo_size_words: nothing is planned for a
\* number that no endpoint can have.
tx_fifo_size_words(mem, ep_number) ==
    IF ep_number \in DOMAIN mem.tx_fifo_size_words
    THEN mem.tx_fifo_size_words[ep_number]
    ELSE 0

\* `+` and `+=` on word counts where the result wraps.
wrapping_add(a, b) == (a + b) % WordModulus

\* The sum does not fit the word type.
add_overflows(a, b) == a + b >= WordModulus

\* rx_fifo_size of configure_all.
rx_fifo_size(mem) ==
    wrapping_add(total_rx_buffer_size_words(mem), RX_FIFO_MARGIN)

\* fifo_top of configure_all when Tx FIFO #k is programmed: the receive FIFO
\* size plus the sizes of the transmit FIFOs before k (fifo_top += fifo_size),
\* in the word type.
RECURSIVE fifo_top(_, _)
fifo_top(mem, k) ==
    IF k = 0
    THEN rx_fifo_size(mem)
    ELSE wrapping_add(fifo_top(mem, k - 1), tx_fifo_size_words(mem, k - 1))

\* One of the additions made before Tx FIFO #k is programmed overflowed.
RECURSIVE fifo_overflow(_, _)
fifo_overflow(mem, k) ==
    IF k = 0
    THEN add_overflows(total_rx_buffer_size_words(mem), RX_FIFO_MARGIN)
    ELSE \/ fifo_overflow(mem, k - 1)
         \/ add_overflows(fifo_top(mem, k - 1), tx_fifo_size_words(mem, k - 1))

\* configure_all panicked on an addition before Tx FIFO #k is programmed:
\* an overflowing addition panics in a build with overflow checks and wraps
\* in a build without.
fifo_panics(mem, k) == build.overflow_checks /\ fifo_overflow(mem, k)

\* The values configure_all writes to GRXFSIZ and to the DIEPTXF registers
\* of the build; a register it does not reach keeps its value.
fifo_registers(mem) ==
    [grxfsiz |-> IF fifo_panics(mem, 0) THEN fifo.grxfsiz ELSE rx_fifo_size(mem),
     dieptxf |-> [k \in TxFifoRegisters |->
                    IF k >= build.tx_fifos \/ fifo_panics(mem, k)
                    THEN fifo.dieptxf[k]
                    ELSE [fd |-> tx_fifo_size_words(mem, k),
                          sa |-> fifo_top(mem, k)]],
     programmed |-> TRUE]

\* configure_all gets past assert!(fifo_top as u32 <= FIFO_DEPTH_WORDS): no
\* addition panicked and the value fifo_top holds after the last transmit
\* FIFO is within the depth.
fifo_fits(mem) ==
    /\ ~fifo_panics(mem, build.tx_fifos)
    /\ fifo_top(mem, build.tx_fifos) <= FIFO_DEPTH_WORDS

\* UsbBus::configure_all with the DAD write of reset when `clear_dad`.
configure_all(clear_dad) ==
    /\ fifo' = fifo_registers(memory)
    /\ IF ~fifo_fits(memory)
       THEN /\ aborted' = TRUE
            /\ UNCHANGED << rxfifo, daintmsk, configured, dad, deferred >>
       ELSE /\ aborted' = FALSE
            /\ rxfifo' = << >>
            /\ deferred' = FALSE
            /\ daintmsk' = [iepm |-> daintmsk.iepm \cup AllocatedIn,
                            oepm |-> daintmsk.oepm \cup (AllocatedOut \cap {0})]
            /\ configured' = [In |-> configured.In \cup AllocatedIn,
                              Out |-> configured.Out \cup AllocatedOut]
            /\ dad' = IF clear_dad THEN 0 ELSE dad

\* deconfigure_all that stops after the IN endpoints.
deconfigure_all_in_only ==
    [daintmsk |-> [iepm |-> {}, oepm |-> {}],
     configured |-> [In |-> configured.In \ AllocatedIn,
                     Out |-> configured.Out]]

\* UsbBus::deconfigure_all: the new DAINTMSK and configured endpoints.
deconfigure_all ==
    [daintmsk |-> [iepm |-> {}, oepm |-> {}],
     configured |-> [In |-> configured.In \ AllocatedIn,
                     Out |-> configured.Out \ AllocatedOut]]

\* UsbBus::enable: the bring-up sequence; it ends by clearing every pending
\* interrupt status bit and connecting the device.
Enable ==
    /\ ~aborted
    /\ ~enabled
    /\ enabled' = TRUE
    /\ gintsts' = {}
    /\ last' = Call("enable", "Ok", "none", -1)
    /\ UNCHANGED << allocator, buffer, fifo, daintmsk, configured, dad, rxfifo,
                    xfrc, pktcnt, stalled, core_id, build, aborted, allocs, events, deferred >>

\* UsbBus::reset.
Reset ==
    /\ ~aborted
    /\ enabled
    /\ configure_all(TRUE)
    /\ last' = Call("reset", IF fifo_fits(memory) THEN "Ok" ELSE "Abort", "none", -1)
    /\ UNCHANGED << allocator, buffer, gintsts, xfrc, pktcnt, stalled, core_id, build,
                    enabled, allocs, events >>

\* The device address the host assigns with SET_ADDRESS.
DeviceAddresses == {5}

\* UsbBus::set_device_address: DCFG.DAD takes the address as given.
SetDeviceAddress(addr) ==
    /\ ~aborted
    /\ enabled
    /\ dad' = addr
    /\ last' = Call("set_device_address", "Ok", "none", addr)
    /\ UNCHANGED << allocator, buffer, fifo, daintmsk, configured, gintsts,
                    rxfifo, xfrc, pktcnt, stalled, core_id, build, enabled, aborted,
                    allocs, events, deferred >>

(* ------------------------------------------------------------------ *)
(* write / read / set_stalled / is_stalled                              *)
(* ------------------------------------------------------------------ *)

\* EndpointAddress values handed to the driver.
Addresses == [dir : Directions, index : 0 .. MaxIndex]

\* Lengths of the slices given to write and read, and the byte counts of
\* received packets.
ByteCounts == {8, 64}

\* EndpointIn::write: refused while the previous packet is still queued or
\* when the data exceeds the endpoint's max packet size; queues it otherwise.
ep_write(ep, len) ==
    IF ep.address.index \in pktcnt
    THEN [res |-> "WouldBlock", pktcnt |-> pktcnt]
    ELSE IF len > ep.max_packet_size
         THEN [res |-> "BufferOverflow", pktcnt |-> pktcnt]
         ELSE [res |-> "Ok", pktcnt |-> pktcnt \cup {ep.address.index}]

\* EndpointOut::read: nothing to read from an Empty buffer, a packet larger
\* than the caller's slice stays buffered, any other packet is handed over
\* and the buffer becomes Empty.
ep_read(buf, len) ==
    IF buf.state = "Empty"
    THEN [res |-> "WouldBlock", buf |-> buf]
    ELSE IF buf.data_size > len
         THEN [res |-> "BufferOverflow", buf |-> buf]
         ELSE [res |-> "Ok", buf |-> [state |-> "Empty", data_size |-> 0]]

\* The slot UsbBus::write dispatches to, None when it returns InvalidEndpoint.
write_slot(ep_addr) ==
    IF ep_addr.dir # "In" \/ ep_addr.index >= 4
    THEN None
    ELSE endpoints_in[ep_addr.index]

\* read_slot without the direction test.
read_slot_any_direction(ep_addr) ==
    IF ep_addr.index >= 4
    THEN None
    ELSE endpoints_out[ep_addr.index]

\* The slot UsbBus::read dispatches to, None when it returns InvalidEndpoint.
read_slot(ep_addr) ==
    IF ep_addr.dir # "Out" \/ ep_addr.index >= 4
    THEN None
    ELSE endpoints_out[ep_addr.index]

\* UsbBus::write.
Write(ep_addr, len) ==
    /\ ~aborted
    /\ enabled
    /\ LET slot == write_slot(ep_addr)
       IN  IF IsSome(slot)
           THEN LET w == ep_write(Unwrap(slot), len)
                IN  /\ pktcnt' = w.pktcnt
                    /\ last' = Call("write", w.res, ep_addr.dir, ep_addr.index)
           ELSE /\ pktcnt' = pktcnt
                /\ last' = Call("write", "InvalidEndpoint", ep_addr.dir, ep_addr.index)
    /\ UNCHANGED << allocator, buffer, fifo, daintmsk, configured, dad, gintsts,
                    rxfifo, xfrc, stalled, core_id, build, enabled, aborted, allocs,
                    events, deferred >>

\* UsbBus::read.
Read(ep_addr, len) ==
    /\ ~aborted
    /\ enabled
    /\ LET slot == read_slot(ep_addr)
       IN  IF IsSome(slot)
           THEN LET r == ep_read(buffer[ep_addr.index], len)
                IN  /\ buffer' = [buffer EXCEPT ![ep_addr.index] = r.buf]
                    /\ last' = Call("read", r.res, ep_addr.dir, ep_addr.index)
           ELSE /\ buffer' = buffer
                /\ last' = Call("read", "InvalidEndpoint", ep_addr.dir, ep_addr.index)
    /\ UNCHANGED << allocator, fifo, daintmsk, configured, dad, gintsts, rxfifo,
                    xfrc, pktcnt, stalled, core_id, build, enabled, aborted, allocs,
                    events, deferred >>

\* UsbBus::set_stalled: the STALL bits after the call.
set_stalled(ep_addr, stall) ==
    IF ep_addr.index >= 4
    THEN stalled
    ELSE IF stall THEN stalled \cup {ep_addr} ELSE stalled \ {ep_addr}

\* UsbBus::is_stalled.
is_stalled(ep_addr) ==
    IF ep_addr.index >= 4
    THEN TRUE
    ELSE ep_addr \in stalled

SetStalled(ep_addr, stall) ==
    /\ ~aborted
    /\ enabled
    /\ stalled' = set_stalled(ep_addr, stall)
    /\ last' = Call("set_stalled", "Ok", ep_addr.dir, ep_addr.index)
    /\ UNCHANGED << allocator, buffer, fifo, daintmsk, configured, dad, gintsts,
                    rxfifo, xfrc, pktcnt, core_id, build, enabled, aborted, allocs,
                    events, deferred >>

IsStalled(ep_addr) ==
    /\ ~aborted
    /\ enabled
    /\ last' = Call("is_stalled", IF is_stalled(ep_addr) THEN "true" ELSE "false",
                    ep_addr.dir, ep_addr.index)
    /\ UNCHANGED << allocator, buffer, hardware, enabled, aborted, allocs,
                    events, deferred >>

(* ------------------------------------------------------------------ *)
(* poll                                                                 *)
(* ------------------------------------------------------------------ *)

\* PKTSTS codes of a receive status entry.
PKTSTS_OUT_NAK == 1

PKTSTS_OUT_RECEIVED == 2

PKTSTS_OUT_COMPLETE == 3

PKTSTS_SETUP_COMPLETE == 4

PKTSTS_SETUP_RECEIVED == 6

\* A SETUP packet is eight bytes.
SETUP_BYTES == 8

\* Status entries the controller can queue: data entries carry a byte count.
Entries ==
    [epnum : Numbers, bcnt : ByteCounts, pktsts : {PKTSTS_OUT_RECEIVED}]
    \cup
    [epnum : Numbers, bcnt : {SETUP_BYTES}, pktsts : {PKTSTS_SETUP_RECEIVED}]
    \cup
    [epnum : Numbers, bcnt : {0},
     pktsts : {PKTSTS_OUT_NAK, PKTSTS_OUT_COMPLETE, PKTSTS_SETUP_COMPLETE}]

\* EndpointBuffer::fill_from_fifo: a packet that fits an Empty buffer is
\* copied and tagged; anything else is refused and the buffer is unchanged.
fill_from_fifo(buf, capacity, data_size, is_setup) ==
    IF buf.state # "Empty" \/ data_size > capacity
    THEN [ok |-> FALSE, buf |-> buf]
    ELSE [ok |-> TRUE,
          buf |-> [state |-> IF is_setup THEN "DataSetup" ELSE "DataOut",
                   data_size |-> data_size]]

\* The core ids of the two re-arm families.
RearmOnComplete(cid) == cid = 4608 \/ cid = 4352

RearmAfterCopy(cid) == cid = 8192 \/ cid = 8448

\* rx_match that leaves the OUT mask alone for an OUT-received entry.
rx_match_out_unmarked(e) ==
    [ep_out |-> {},
     ep_setup |-> IF e.pktsts = PKTSTS_SETUP_RECEIVED THEN {e.epnum} ELSE {},
     txflush |-> e.pktsts = PKTSTS_SETUP_RECEIVED /\ e.epnum \in pktcnt,
     rearm |-> IF /\ e.pktsts \in {PKTSTS_OUT_COMPLETE, PKTSTS_SETUP_COMPLETE}
                  /\ RearmOnComplete(core_id)
               THEN {"complete"} ELSE {},
     popped |-> e.pktsts \notin {PKTSTS_OUT_RECEIVED, PKTSTS_SETUP_RECEIVED}]

\* rx_match that leaves the SETUP mask alone for a SETUP-received entry.
rx_match_setup_unmarked(e) ==
    [ep_out |-> IF e.pktsts = PKTSTS_OUT_RECEIVED THEN {e.epnum} ELSE {},
     ep_setup |-> {},
     txflush |-> e.pktsts = PKTSTS_SETUP_RECEIVED /\ e.epnum \in pktcnt,
     rearm |-> IF /\ e.pktsts \in {PKTSTS_OUT_COMPLETE, PKTSTS_SETUP_COMPLETE}
                  /\ RearmOnComplete(core_id)
               THEN {"complete"} ELSE {},
     popped |-> e.pktsts \notin {PKTSTS_OUT_RECEIVED, PKTSTS_SETUP_RECEIVED}]

\* The match on the status of the entry read from GRXSTSR (bus.rs 457-481).
rx_match(e) ==
    [ep_out |-> IF e.pktsts = PKTSTS_OUT_RECEIVED THEN {e.epnum} ELSE {},
     ep_setup |-> IF e.pktsts = PKTSTS_SETUP_RECEIVED THEN {e.epnum} ELSE {},
     txflush |-> e.pktsts = PKTSTS_SETUP_RECEIVED /\ e.epnum \in pktcnt,
     rearm |-> IF /\ e.pktsts \in {PKTSTS_OUT_COMPLETE, PKTSTS_SETUP_COMPLETE}
                  /\ RearmOnComplete(core_id)
               THEN {"complete"} ELSE {},
     popped |-> e.pktsts \notin {PKTSTS_OUT_RECEIVED, PKTSTS_SETUP_RECEIVED}]

\* rx_take without the test that the buffer is Empty.
rx_take_no_empty_check(e) ==
    IF /\ e.pktsts \in {PKTSTS_OUT_RECEIVED, PKTSTS_SETUP_RECEIVED}
       /\ IsSome(endpoints_out[e.epnum])
    THEN LET f == fill_from_fifo(buffer[e.epnum],
                                 Unwrap(endpoints_out[e.epnum]).max_packet_size,
                                 e.bcnt, e.pktsts = PKTSTS_SETUP_RECEIVED)
         IN  [popped |-> TRUE,
              fill |-> IF f.ok THEN "ok" ELSE "err",
              buf |-> [buffer EXCEPT ![e.epnum] = f.buf],
              rearm |-> IF RearmAfterCopy(core_id) THEN {"copy"} ELSE {}]
    ELSE [popped |-> FALSE, fill |-> "none", buf |-> buffer, rearm |-> {}]

\* The copy into the endpoint's buffer (bus.rs 483-499): whether the entry
\* is taken, and the buffer after it.
rx_take(e) ==
    IF /\ e.pktsts \in {PKTSTS_OUT_RECEIVED, PKTSTS_SETUP_RECEIVED}
       /\ IsSome(endpoints_out[e.epnum])
       /\ buffer[e.epnum].state = "Empty"
    THEN LET f == fill_from_fifo(buffer[e.epnum],
                                 Unwrap(endpoints_out[e.epnum]).max_packet_size,
                                 e.bcnt, e.pktsts = PKTSTS_SETUP_RECEIVED)
         IN  [popped |-> TRUE,
              fill |-> IF f.ok THEN "ok" ELSE "err",
              buf |-> [buffer EXCEPT ![e.epnum] = f.buf],
              rearm |-> IF RearmAfterCopy(core_id) THEN {"copy"} ELSE {}]
    ELSE [popped |-> FALSE, fill |-> "none", buf |-> buffer, rearm |-> {}]

\* The scan of the IN endpoints (bus.rs 502-512): the latches acknowledged.
in_scan(iep) ==
    IF iep THEN {n \in AllocatedIn : n \in xfrc} ELSE {}

\* XFRC left latched by an acknowledge that is never written.
xfrc_not_acked(done) == xfrc

\* write_reg!(DIEPINT, XFRC: 1) for the endpoints found: the latches left.
xfrc_ack(done) == xfrc \ done

\* out_scan without the DataSetup arm.
out_scan_data_out_only(buf, state) ==
    IF state = "DataOut"
    THEN {n \in AllocatedOut : buf[n].state = "DataOut"}
    ELSE {}

\* The scan of the receive buffers (bus.rs 514-526).
out_scan(buf, state) == {n \in AllocatedOut : buf[n].state = state}

\* data_report whose test for Data leaves out the SETUP mask.
data_report_setup_untested(m, t, queue, iep) ==
    LET popped == m.popped \/ t.popped
        ep_in_complete == in_scan(iep)
        ep_out == m.ep_out \cup out_scan(t.buf, "DataOut")
        ep_setup == m.ep_setup \cup out_scan(t.buf, "DataSetup")
    IN  [rxfifo |-> IF popped /\ queue # << >> THEN Tail(queue) ELSE queue,
         buffer |-> t.buf,
         xfrc |-> xfrc_ack(ep_in_complete),
         popped |-> popped,
         fill |-> t.fill,
         rearm |-> m.rearm \cup t.rearm,
         txflush |-> m.txflush,
         ep_out |-> ep_out,
         ep_in_complete |-> ep_in_complete,
         ep_setup |-> ep_setup,
         res |-> IF (ep_in_complete \cup ep_out) # {}
                 THEN "Data" ELSE "None"]

\* The report and the effects of the data path once the status entry has
\* been handled: m is the outcome of the match, t that of the copy.
data_report(m, t, queue, iep) ==
    LET popped == m.popped \/ t.popped
        ep_in_complete == in_scan(iep)
        ep_out == m.ep_out \cup out_scan(t.buf, "DataOut")
        ep_setup == m.ep_setup \cup out_scan(t.buf, "DataSetup")
    IN  [rxfifo |-> IF popped /\ queue # << >> THEN Tail(queue) ELSE queue,
         buffer |-> t.buf,
         xfrc |-> xfrc_ack(ep_in_complete),
         popped |-> popped,
         fill |-> t.fill,
         rearm |-> m.rearm \cup t.rearm,
         txflush |-> m.txflush,
         ep_out |-> ep_out,
         ep_in_complete |-> ep_in_complete,
         ep_setup |-> ep_setup,
         res |-> IF (ep_in_complete \cup ep_out \cup ep_setup) # {}
                 THEN "Data" ELSE "None"]

\* The data path of poll (bus.rs 448-532).  `seen` is the entry read from
\* GRXSTSR when RXFLVL was set, `queue` the receive FIFO at that point.
data_path(seen, queue, iep) ==
    IF IsSome(seen)
    THEN CHOOSE d \in {data_report(m, t, queue, iep) :
                          m \in {rx_match(Unwrap(seen))},
                          t \in {rx_take(Unwrap(seen))}} : TRUE
    ELSE data_report([ep_out |-> {}, ep_setup |-> {}, txflush |-> FALSE,
                      rearm |-> {}, popped |-> FALSE],
                     [popped |-> FALSE, fill |-> "none", buf |-> buffer,
                      rearm |-> {}],
                     queue, iep)

\* The event poll reports for the latched status bits, "data" when it goes
\* on to the data path (bus.rs 434-447).
poll_event(status) ==
    IF "ENUMDNE" \in status THEN "Reset"
    ELSE IF "WKUPINT" \in status THEN "Resume"
    ELSE IF "USBSUSP" \in status THEN "Suspend"
    ELSE "data"

\* event_bit that acknowledges every pending event bit at once.
event_bit_clears_all(event) ==
    IF event = "data" THEN {} ELSE {"ENUMDNE", "WKUPINT", "USBSUSP"}

\* The GINTSTS bit poll acknowledges for the event it reports.
event_bit(event) ==
    IF event = "Reset" THEN {"ENUMDNE"}
    ELSE IF event = "Resume" THEN {"WKUPINT"}
    ELSE IF event = "Suspend" THEN {"USBSUSP"}
    ELSE {}

\* What poll reads from GRXSTSR: nothing when RXFLVL was clear, the head of
\* the receive FIFO when it was set, and any entry at all when the reset
\* branch has flushed the FIFO between the two reads.
StatusReads ==
    IF rxfifo = << >>
    THEN {None}
    ELSE IF "USBRST" \in gintsts
         THEN {Some(e) : e \in Entries}
         ELSE {Some(Head(rxfifo))}

\* The history of the head of the receive FIFO after a poll: cleared when
\* the FIFO was flushed or the entry popped, set when the data path left a
\* data entry of an allocated OUT endpoint behind a non-Empty buffer.
poll_deferred(reset, event, seen, d) ==
    IF reset THEN FALSE
    ELSE IF event # "data" \/ ~IsSome(seen) THEN deferred
    ELSE IF d.popped THEN FALSE
    ELSE IF /\ Unwrap(seen).pktsts \in {PKTSTS_OUT_RECEIVED, PKTSTS_SETUP_RECEIVED}
            /\ Unwrap(seen).epnum \in AllocatedOut
         THEN TRUE
         ELSE deferred

\* UsbBus::poll.  iep is the IEPINT bit as read.
Poll(iep) ==
    /\ ~aborted
    /\ enabled
    /\ \E seen \in StatusReads :
       LET rxflvl == rxfifo # << >>
           reset == "USBRST" \in gintsts
           status == gintsts \cup (IF iep THEN {"IEPINT"} ELSE {})
                             \cup (IF rxflvl THEN {"RXFLVL"} ELSE {})
           queue == IF reset THEN << >> ELSE rxfifo
           event == poll_event(gintsts)
       IN  \E d \in {data_path(seen, queue, iep)} :
           /\ gintsts' = (gintsts \ {"USBRST"}) \ event_bit(event)
           /\ daintmsk' = IF reset THEN deconfigure_all.daintmsk ELSE daintmsk
           /\ configured' = IF reset THEN deconfigure_all.configured
                                      ELSE configured
           /\ deferred' = poll_deferred(reset, event, seen, d)
           /\ IF event # "data"
              THEN /\ rxfifo' = queue
                   /\ UNCHANGED << buffer, xfrc >>
                   /\ last' = [PollCall(event) EXCEPT
                                  !.sts = status]
              ELSE /\ rxfifo' = d.rxfifo
                   /\ buffer' = d.buffer
                   /\ xfrc' = d.xfrc
                   /\ last' = [PollCall(d.res) EXCEPT
                                  !.sts = status, !.entry = seen,
                                  !.popped = d.popped, !.fill = d.fill,
                                  !.rearm = d.rearm, !.txflush = d.txflush,
                                  !.ep_out = d.ep_out,
                                  !.ep_in_complete = d.ep_in_complete,
                                  !.ep_setup = d.ep_setup]
    /\ UNCHANGED << allocator, fifo, dad, pktcnt, stalled, core_id, build, enabled,
                    aborted, allocs, events >>

(* ------------------------------------------------------------------ *)
(* The controller                                                       *)
(* ------------------------------------------------------------------ *)

\* Number of hardware events explored in one run.
MaxEvents == 2

\* Depth of the receive FIFO in status entries.
MaxFifo == 1

\* What a hardware event leaves in `last`.
HwStep == [NoCall EXCEPT !.op = "hw"]

\* The controller latches one of USBRST, ENUMDNE, WKUPINT, USBSUSP.
HwStatus(bit) ==
    /\ ~aborted
    /\ enabled
    /\ events < MaxEvents
    /\ bit \notin gintsts
    /\ gintsts' = gintsts \cup {bit}
    /\ events' = events + 1
    /\ last' = HwStep
    /\ UNCHANGED << allocator, buffer, fifo, daintmsk, configured, dad, rxfifo,
                    xfrc, pktcnt, stalled, core_id, build, enabled, aborted, allocs,
                    deferred >>

\* The controller queues a status entry in the receive FIFO.
HwReceive(e) ==
    /\ ~aborted
    /\ enabled
    /\ events < MaxEvents
    /\ Len(rxfifo) < MaxFifo
    /\ rxfifo' = Append(rxfifo, e)
    /\ events' = events + 1
    /\ last' = HwStep
    /\ UNCHANGED << allocator, buffer, fifo, daintmsk, configured, dad, gintsts,
                    xfrc, pktcnt, stalled, core_id, build, enabled, aborted, allocs,
                    deferred >>

\* The controller completes an IN transfer and latches XFRC of endpoint n.
HwTransferComplete(n) ==
    /\ ~aborted
    /\ enabled
    /\ events < MaxEvents
    /\ n \notin xfrc
    /\ xfrc' = xfrc \cup {n}
    /\ pktcnt' = pktcnt \ {n}
    /\ events' = events + 1
    /\ last' = HwStep
    /\ UNCHANGED << allocator, buffer, fifo, daintmsk, configured, dad, gintsts,
                    rxfifo, stalled, core_id, build, enabled, aborted, allocs,
                    deferred >>

(* ------------------------------------------------------------------ *)
(* Specifications                                                       *)
(* ------------------------------------------------------------------ *)

\* CID values: one core of each supported family, and one that is neither.
CoreIds == {4608, 8192, 12288}

Init ==
    /\ bitmap_in = {}
    /\ bitmap_out = {}
    /\ endpoints_in = [n \in Numbers |-> None]
    /\ endpoints_out = [n \in Numbers |-> None]
    /\ memory = [tx_fifo_size_words |-> [n \in Numbers |-> 0], rx_words |-> 0]
    /\ buffer = [n \in Numbers |-> [state |-> "Empty", data_size |-> 0]]
    /\ fifo = [grxfsiz |-> 0,
               dieptxf |-> [k \in TxFifoRegisters |-> [fd |-> 0, sa |-> 0]],
               programmed |-> FALSE]
    /\ daintmsk = [iepm |-> {}, oepm |-> {}]
    /\ configured = [In |-> {}, Out |-> {}]
    /\ dad = 0
    /\ gintsts = {}
    /\ rxfifo = << >>
    /\ xfrc = {}
    /\ pktcnt = {}
    /\ stalled = {}
    /\ core_id \in CoreIds
    /\ build \in Builds
    /\ enabled = FALSE
    /\ aborted = FALSE
    /\ allocs = 0
    /\ events = 0
    /\ deferred = FALSE
    /\ last = NoCall

\* The driver in the build where the layout sums are left to the assert.
InitDriver == Init /\ build = DriverBuild

\* The allocator and the dispatch run the same on every core.
InitAlloc == InitDriver /\ core_id = 4608

\* The FIFO layout is computed the same on every core, and differently in
\* each build.
InitLayout == Init /\ core_id = 4608

\* Addresses given to the stall calls: every out-of-range one and one valid.
StallAddresses ==
    {a \in Addresses : a.index >= ENDPOINT_COUNT}
        \cup {[dir |-> "Out", index |-> 0]}

\* Endpoint setup as the device stack does it: the control endpoint by
\* number, the others by automatic numbering, each with its own buffer.
SetupPlan ==
    << [dir |-> "Out", number |-> Some(0)],
       [dir |-> "Out", number |-> None],
       [dir |-> "In", number |-> Some(0)],
       [dir |-> "In", number |-> None] >>

\* The max_packet_size of the endpoints set up for the driver specification:
\* the smallest of the sizes requested from alloc_ep.
SetupSize == CHOOSE s \in PacketSizes : \A t \in PacketSizes : s <= t

\* Number of alloc_ep calls of the plan made before enable.
MaxSetup == 3

\* The OUT addresses of the hardware endpoints.
OutAddresses == {a \in Addresses : a.dir = "Out" /\ a.index \in Numbers}

\* Lengths of the slices the device stack reads into.
ReadLens == {4, 64}

\* IEPINT reads as set only while some IN endpoint interrupt is latched.
IepReads == IF xfrc = {} THEN {FALSE} ELSE BOOLEAN

\* The number of alloc_ep calls after which the device stack calls enable.
SetupCalls == IF MaxSetup < Len(SetupPlan) THEN MaxSetup ELSE Len(SetupPlan)

Next ==
    \/ /\ allocs < SetupCalls
       /\ AllocEp(SetupPlan[allocs + 1].dir, SetupPlan[allocs + 1].number,
                  SetupSize, TRUE)
    \/ allocs = SetupCalls /\ Enable
    \/ Reset
    \/ \E addr \in DeviceAddresses : SetDeviceAddress(addr)
    \/ \E a \in OutAddresses, len \in ReadLens :
            IsSome(endpoints_out[a.index]) /\ Read(a, len)
    \/ \E iep \in IepReads : Poll(iep)
    \/ \E bit \in {"USBRST", "ENUMDNE", "WKUPINT", "USBSUSP"} : HwStatus(bit)
    \/ \E e \in Entries : HwReceive(e)
    \/ \E n \in Numbers : HwTransferComplete(n)

Spec == InitDriver /\ [][Next]_vars

\* A read by the device stack of an endpoint whose buffer holds a packet,
\* into a slice that takes any packet.
DrainRead(n) ==
    /\ buffer[n].state # "Empty"
    /\ Read([dir |-> "Out", index |-> n], 64)

\* The device stack calls poll again and again, and reads every endpoint
\* a Data event reports until its buffer is drained.
Fairness ==
    /\ WF_vars(\E iep \in IepReads : Poll(iep))
    /\ \A n \in Numbers : WF_vars(DrainRead(n))

\* The packets received in the fair specification: OUT packets for every
\* endpoint number, with an OUT endpoint or without.
LiveEntries == {e \in Entries : e.pktsts = PKTSTS_OUT_RECEIVED}

\* The driver under a device stack that keeps polling and reading.
NextLive ==
    \/ /\ allocs < SetupCalls
       /\ AllocEp(SetupPlan[allocs + 1].dir, SetupPlan[allocs + 1].number,
                  SetupSize, TRUE)
    \/ allocs = SetupCalls /\ Enable
    \/ Reset
    \/ \E addr \in DeviceAddresses : SetDeviceAddress(addr)
    \/ \E n \in Numbers : DrainRead(n)
    \/ \E iep \in IepReads : Poll(iep)
    \/ \E bit \in {"USBRST", "ENUMDNE", "WKUPINT", "USBSUSP"} : HwStatus(bit)
    \/ \E e \in LiveEntries : HwReceive(e)

SpecLive == InitAlloc /\ [][NextLive]_vars /\ Fairness

\* The packets received in the dispatch specification: OUT packets for the
\* allocated OUT endpoints, which is what fills their buffers.
DispatchEntries ==
    {e \in Entries : e.pktsts = PKTSTS_OUT_RECEIVED /\ e.epnum \in AllocatedOut}

\* The dispatch of write, read and the stall calls over every address, on
\* endpoints whose buffers the controller fills; a queued IN packet stays
\* queued, so a second write to its endpoint is refused.
NextDispatch ==
    \/ /\ allocs < SetupCalls
       /\ AllocEp(SetupPlan[allocs + 1].dir, SetupPlan[allocs + 1].number,
                  SetupSize, TRUE)
    \/ allocs = SetupCalls /\ Enable
    \/ \E addr \in DeviceAddresses : SetDeviceAddress(addr)
    \/ \E a \in Addresses, len \in ByteCounts : Write(a, len)
    \/ \E a \in Addresses, len \in ReadLens : Read(a, len)
    \/ \E a \in StallAddresses, st \in BOOLEAN : SetStalled(a, st)
    \/ \E a \in StallAddresses : IsStalled(a)
    \/ \E iep \in IepReads : Poll(iep)
    \/ \E e \in DispatchEntries : HwReceive(e)

SpecDispatch == InitAlloc /\ [][NextDispatch]_vars

\* The allocator on its own: endpoint setup followed by the FIFO layout.
NextAlloc ==
    \/ \E d \in Directions, n \in NumberOpts, s \in PacketSizes, ok \in BOOLEAN :
            AllocEp(d, n, s, ok)
    \/ Enable
    \/ Reset
    \/ \E addr \in DeviceAddresses : SetDeviceAddress(addr)

SpecAlloc == InitAlloc /\ [][NextAlloc]_vars

\* max_packet_size values that decide the layout: a small packet and the
\* largest a u16 holds.
LayoutPacketSizes == {8, 65535}

\* Endpoint numbers asked for where only the sizes matter.
LayoutNumbers == {None, Some(0)}

\* The FIFO layout on its own: endpoints of either size in every build,
\* then enable and reset, which runs configure_all.
NextLayout ==
    \/ \E d \in Directions, n \in LayoutNumbers, s \in LayoutPacketSizes :
            AllocEp(d, n, s, TRUE)
    \/ Enable
    \/ Reset
    \/ \E addr \in DeviceAddresses : SetDeviceAddress(addr)

SpecLayout == InitLayout /\ [][NextLayout]_vars

(* ------------------------------------------------------------------ *)
(* Properties of the allocator                                          *)
(* ------------------------------------------------------------------ *)

\* The bitmap and the occupied slots of a direction.
BitmapOf(dir) == IF dir = "In" THEN bitmap_in ELSE bitmap_out

AllocatedOf(dir) == IF dir = "In" THEN AllocatedIn ELSE AllocatedOut

\* This step is a call of alloc_ep (its record is in last').
AllocStep == last'.op = "alloc_ep" /\ allocs' # allocs

\* C4: every successful alloc_ep returns a number below the endpoint count
\* that no earlier successful alloc_ep of the same direction returned (its
\* slot and its bitmap bit were free before the call), and an explicit
\* request for a number whose bit is already set in that direction, or that
\* is >= ENDPOINT_COUNT, returns InvalidEndpoint.
C4_UniqueNumbers ==
    [][AllocStep =>
        /\ last'.res = "Ok" =>
              /\ last'.num \in Numbers
              /\ last'.num \notin AllocatedOf(last'.dir)
              /\ last'.num \notin BitmapOf(last'.dir)
              /\ IsSome(last'.req) => last'.num = Unwrap(last'.req)
        /\ (/\ IsSome(last'.req)
            /\ \/ Unwrap(last'.req) >= ENDPOINT_COUNT
               \/ Unwrap(last'.req) \in BitmapOf(last'.dir))
              => last'.res = "InvalidEndpoint"]_vars

\* C4 witness: a second endpoint of one direction has just been allocated.
C4_Witness ==
    /\ last.op = "alloc_ep"
    /\ last.res = "Ok"
    /\ Cardinality(AllocatedOf(last.dir)) >= 2

\* The lowest number of 1..3 whose bit is clear in the bitmap (0 if none).
LowestFree(bitmap) ==
    IF AutoNumbers \subseteq bitmap
    THEN 0
    ELSE CHOOSE n \in AutoNumbers \ bitmap :
            \A m \in AutoNumbers \ bitmap : n <= m

\* C5: alloc_ep without an explicit number never returns number 0; it takes
\* the lowest number of 1..3 whose bit is clear (and returns it unless the
\* memory allocator rejects the buffer), and it returns EndpointOverflow
\* exactly when bits 1, 2 and 3 are all set, whether or not bit 0 is.
C5_AutoNumber ==
    [][(AllocStep /\ last'.req = None) =>
        LET before == BitmapOf(last'.dir)
            after == IF last'.dir = "In" THEN bitmap_in' ELSE bitmap_out'
        IN  /\ last'.num # 0
            /\ (last'.res = "EndpointOverflow") <=> (AutoNumbers \subseteq before)
            /\ last'.res # "EndpointOverflow" =>
                  /\ after = before \cup {LowestFree(before)}
                  /\ last'.res \in {"Ok", "EndpointMemoryOverflow"}
                  /\ last'.res = "Ok" => last'.num = LowestFree(before)]_vars

\* C5 witness: an automatic allocation returned number 2 (1 being taken).
C5_Witness ==
    /\ last.op = "alloc_ep"
    /\ last.req = None
    /\ last.res = "Ok"
    /\ last.num = 2

\* C6: an alloc_ep that fails with EndpointOverflow leaves both bitmaps, both
\* slot arrays, the memory allocator and the receive buffers as they were.
C6_OverflowNoMutation ==
    [][(AllocStep /\ last'.res = "EndpointOverflow") =>
        UNCHANGED << allocator, buffer >>]_vars

\* C6 witness: an automatic allocation failed with EndpointOverflow while
\* number 0 of that direction was still free.
C6_Witness ==
    /\ last.op = "alloc_ep"
    /\ last.res = "EndpointOverflow"
    /\ 0 \notin BitmapOf(last.dir)

\* C7 (as claimed): in every reachable state, bit n of a direction's bitmap
\* is set if and only if slot n of that direction holds an endpoint.
C7_BitmapMatchesSlots ==
    /\ bitmap_in = AllocatedIn
    /\ bitmap_out = AllocatedOut

(* ------------------------------------------------------------------ *)
(* Properties of the FIFO layout                                        *)
(* ------------------------------------------------------------------ *)

\* Sum of the programmed sizes of the transmit FIFOs below k.
RECURSIVE TxSizesBelow(_)
TxSizesBelow(k) ==
    IF k = 0 THEN 0 ELSE TxSizesBelow(k - 1) + fifo.dieptxf[k - 1].fd

\* The transmit FIFOs of the build.
TxFifos == 0 .. (build.tx_fifos - 1)

\* The cumulative offset after the last transmit FIFO: the receive FIFO size
\* plus the sizes of all the transmit FIFOs, as a number of words.
LayoutEnd == fifo.grxfsiz + TxSizesBelow(build.tx_fifos)

\* Each transmit FIFO starts where the receive FIFO and the transmit FIFOs
\* before it end.
LayoutOffsets ==
    \A k \in TxFifos : fifo.dieptxf[k].sa = fifo.grxfsiz + TxSizesBelow(k)

\* C10: configure_all aborts or programs a layout in which each transmit
\* FIFO starts at the receive FIFO size plus the sizes of the transmit FIFOs
\* before it, the start offsets are strictly increasing and the final
\* cumulative offset is within the FIFO depth; a cumulative offset beyond
\* the depth, or one that wraps the word arithmetic, aborts.
C10_StrictLayout ==
    fifo.programmed =>
        \/ aborted
        \/ /\ LayoutOffsets
           /\ 0 < fifo.dieptxf[0].sa
           /\ \A k \in TxFifos \ {0} :
                 fifo.dieptxf[k - 1].sa < fifo.dieptxf[k].sa
           /\ LayoutEnd <= FIFO_DEPTH_WORDS

\* The last clause of C10 alone: no layout whose cumulative offset exceeds
\* the FIFO depth is programmed without abort.
C10_NoWrappedLayout ==
    (fifo.programmed /\ ~aborted) => LayoutEnd <= FIFO_DEPTH_WORDS

\* In a build with overflow checks no layout beyond the FIFO depth gets past
\* configure_all: the addition that would wrap panics.
C10_ChecksAbort ==
    (build.overflow_checks /\ fifo.programmed /\ ~aborted)
        => LayoutEnd <= FIFO_DEPTH_WORDS

\* A layout that did not fit was refused by the assert.
C10_AbortReached == aborted /\ LayoutEnd > FIFO_DEPTH_WORDS

\* A layout whose sum wrapped got past the assert.
C10_WrapReached ==
    /\ fifo.programmed
    /\ ~aborted
    /\ LayoutEnd >= WordModulus

(* ------------------------------------------------------------------ *)
(* Properties of poll                                                   *)
(* ------------------------------------------------------------------ *)

\* The last call was a poll that read the reset-status bit as set.
PolledReset == last.op = "poll" /\ "USBRST" \in last.sts

\* C1: a poll that reads USBRST as set returns Reset, whatever the other
\* status bits are.
C1_ResetReturnsReset == PolledReset => last.res = "Reset"

\* The entry a poll read is an OUT-received or SETUP-received one for an
\* allocated OUT endpoint.
IsDataEntry(entry) ==
    /\ IsSome(entry)
    /\ Unwrap(entry).pktsts \in {PKTSTS_OUT_RECEIVED, PKTSTS_SETUP_RECEIVED}
    /\ Unwrap(entry).epnum \in AllocatedOut

\* C2: a poll whose data path reads an OUT-received or SETUP-received entry
\* for an allocated OUT endpoint with a non-Empty buffer does not read
\* GRXSTSP, does not call fill_from_fifo, does not re-arm the endpoint, and
\* leaves every receive buffer (and, unless the same poll flushed it for a
\* reset, the receive FIFO) as it was; and a non-Empty buffer changes only
\* by a successful read of its endpoint, which leaves it Empty.
C2_Backpressure ==
    [][/\ (/\ last'.op = "poll"
           /\ IsDataEntry(last'.entry)
           /\ buffer[Unwrap(last'.entry).epnum].state # "Empty")
          => /\ ~last'.popped
             /\ last'.fill = "none"
             /\ last'.rearm = {}
             /\ buffer' = buffer
             /\ "USBRST" \notin last'.sts => rxfifo' = rxfifo
       /\ \A n \in Numbers :
             (buffer[n].state # "Empty" /\ buffer'[n] # buffer[n])
                => /\ last'.op = "read"
                   /\ last'.res = "Ok"
                   /\ last'.num = n
                   /\ buffer'[n].state = "Empty"]_vars

\* The last call was a poll that met backpressure: it read a data entry for
\* an allocated OUT endpoint and left it in the receive FIFO.
Backpressured ==
    /\ last.op = "poll"
    /\ last.res \in {"Data", "None"}
    /\ IsDataEntry(last.entry)
    /\ ~last.popped

\* C2 witness: backpressure on an OUT-received entry, which is still at the
\* head of the receive FIFO behind a buffer that holds a packet.
C2_Witness ==
    /\ Backpressured
    /\ rxfifo # << >>
    /\ Head(rxfifo) = Unwrap(last.entry)
    /\ buffer[Unwrap(last.entry).epnum].state # "Empty"

\* C3 (as claimed): a poll that reads an OUT-received entry for an endpoint
\* whose buffer is non-Empty does not set that endpoint's bit in the OUT
\* mask of the event it returns.
C3_NotReported ==
    (Backpressured /\ Unwrap(last.entry).pktsts = PKTSTS_OUT_RECEIVED)
        => Unwrap(last.entry).epnum \notin last.ep_out

\* C3 (amended): such a poll, when it reaches the data path, returns a Data
\* event whose OUT mask has that endpoint's bit set, whether the buffer
\* holds an OUT or a SETUP packet; only the pop and the copy are withheld.
C3_StillReported ==
    (Backpressured /\ Unwrap(last.entry).pktsts = PKTSTS_OUT_RECEIVED)
        => /\ last.res = "Data"
           /\ Unwrap(last.entry).epnum \in last.ep_out
           /\ buffer[Unwrap(last.entry).epnum].state # "Empty"

\* C3 witness: backpressure on an OUT-received entry behind a DataOut
\* buffer, reported in the OUT mask.
C3_Witness ==
    /\ Backpressured
    /\ Unwrap(last.entry).pktsts = PKTSTS_OUT_RECEIVED
    /\ buffer[Unwrap(last.entry).epnum].state = "DataOut"
    /\ Unwrap(last.entry).epnum \in last.ep_out

\* C9: a poll that reaches the data path with IEPINT set and XFRC latched
\* for exactly one allocated IN endpoint N returns a Data event whose
\* IN-complete mask is {N} and clears the latch of N; a poll that follows
\* it with no hardware event in between does not report N again.
C9_TransferComplete ==
    [][\A n \in Numbers :
        /\ (/\ last'.op = "poll"
            /\ "IEPINT" \in last'.sts
            /\ last'.sts \cap {"ENUMDNE", "WKUPINT", "USBSUSP"} = {}
            /\ xfrc \cap AllocatedIn = {n})
           => /\ last'.res = "Data"
              /\ last'.ep_in_complete = {n}
              /\ n \notin xfrc'
        /\ (/\ last.op = "poll"
            /\ n \in last.ep_in_complete
            /\ last'.op = "poll")
           => n \notin last'.ep_in_complete]_vars

\* C9 witness: a poll reported exactly IN endpoint 0 complete, nothing else,
\* and its latch is clear.
C9_Witness ==
    /\ last.op = "poll"
    /\ last.res = "Data"
    /\ last.sts = {"IEPINT"}
    /\ last.ep_in_complete = {0}
    /\ last.ep_out = {}
    /\ last.ep_setup = {}
    /\ 0 \notin xfrc

(* ------------------------------------------------------------------ *)
(* Properties of the dispatch                                           *)
(* ------------------------------------------------------------------ *)

\* The address does not name an endpoint that `op` can use: its index is
\* out of range, its direction is the wrong one, or its slot is empty.
BadAddress(op, dir, index) ==
    \/ index >= ENDPOINT_COUNT
    \/ dir # (IF op = "write" THEN "In" ELSE "Out")
    \/ index \notin AllocatedOf(dir)

\* C8: write and read on an address whose index is >= 4, whose direction is
\* the wrong one or whose slot is empty return InvalidEndpoint and change
\* nothing (no buffer, no queued packet); set_stalled on an index >= 4
\* changes nothing and is_stalled on it returns true.
C8_Dispatch ==
    [][/\ (/\ last'.op \in {"read", "write"}
           /\ BadAddress(last'.op, last'.dir, last'.num))
          => /\ last'.res = "InvalidEndpoint"
             /\ UNCHANGED << allocator, buffer, hardware >>
       /\ (last'.op = "set_stalled" /\ last'.num >= ENDPOINT_COUNT)
          => UNCHANGED << allocator, buffer, hardware >>
       /\ (last'.op = "is_stalled" /\ last'.num >= ENDPOINT_COUNT)
          => /\ last'.res = "true"
             /\ UNCHANGED << allocator, buffer, hardware >>]_vars

\* C8 witness: a read with an IN address of an allocated number returned
\* InvalidEndpoint while the OUT buffer of that number holds a packet.
C8_Witness ==
    /\ last.op = "read"
    /\ last.dir = "In"
    /\ last.res = "InvalidEndpoint"
    /\ last.num \in AllocatedOut
    /\ buffer[last.num].state # "Empty"

(* ------------------------------------------------------------------ *)
(* Properties of the data path                                          *)
(* ------------------------------------------------------------------ *)

\* The status bits that keep a poll from being a data-path poll.
EventBits == {"USBRST", "ENUMDNE", "WKUPINT", "USBSUSP"}

\* The next step is a poll that goes straight to the data path.
DataPathPoll == last'.op = "poll" /\ last'.sts \cap EventBits = {}

\* The buffer state a received entry is tagged with.
TagOf(e) == IF e.pktsts = PKTSTS_SETUP_RECEIVED THEN "DataSetup" ELSE "DataOut"

\* The mask of the record `r` an entry of that kind is reported in.
MaskOf(r, e) == IF e.pktsts = PKTSTS_SETUP_RECEIVED THEN r.ep_setup ELSE r.ep_out

\* A deferred entry is at the head of the receive FIFO and read has since
\* drained the buffer of its endpoint.
DeferredAndDrained ==
    /\ deferred
    /\ rxfifo # << >>
    /\ buffer[Head(rxfifo).epnum].state = "Empty"

\* C11: once read has drained the buffer behind a deferred OUT-received or
\* SETUP-received entry, the next data-path poll pops the entry, fills the
\* buffer (DataSetup for SETUP, DataOut for OUT) and reports the endpoint,
\* so that the deferred packet ends up in the buffer.
C11_DeferredDelivered ==
    [][(DeferredAndDrained /\ DataPathPoll)
          => /\ last'.popped
             /\ last'.fill = "ok"
             /\ buffer'[Head(rxfifo).epnum].state = TagOf(Head(rxfifo))
             /\ buffer'[Head(rxfifo).epnum].data_size = Head(rxfifo).bcnt
             /\ Head(rxfifo).epnum \in MaskOf(last', Head(rxfifo))]_vars

\* The deferred entry fits the buffer of its endpoint.
DeferredFits ==
    Head(rxfifo).bcnt <= Unwrap(endpoints_out[Head(rxfifo).epnum]).max_packet_size

\* The same with the packets that fill_from_fifo accepts only.
C11_DeliveredWhenAccepted ==
    [][(DeferredAndDrained /\ DeferredFits /\ DataPathPoll)
          => /\ last'.popped
             /\ last'.fill = "ok"
             /\ buffer'[Head(rxfifo).epnum].state = TagOf(Head(rxfifo))
             /\ buffer'[Head(rxfifo).epnum].data_size = Head(rxfifo).bcnt
             /\ Head(rxfifo).epnum \in MaskOf(last', Head(rxfifo))]_vars

(* ------------------------------------------------------------------ *)
(* Properties of reset                                                  *)
(* ------------------------------------------------------------------ *)

\* C12: a poll that sees USBRST acknowledges it and leaves every allocated
\* endpoint of both directions deconfigured; neither a poll (with its
\* deconfigure_all) nor reset (with its configure_all) changes the bitmaps,
\* the slot arrays or a stored descriptor; and a reset() that follows
\* configures exactly the endpoints that were allocated before.
C12_NumberingSurvivesReset ==
    [][/\ (last'.op \in {"poll", "reset"}) => UNCHANGED allocator
       /\ (last'.op = "poll" /\ "USBRST" \in last'.sts)
          => /\ "USBRST" \notin gintsts'
             /\ configured'.In \cap AllocatedIn = {}
             /\ configured'.Out \cap AllocatedOut = {}
             /\ daintmsk' = [iepm |-> {}, oepm |-> {}]
       /\ (last'.op = "reset" /\ last'.res = "Ok")
          => /\ configured'.In = configured.In \cup AllocatedIn
             /\ configured'.Out = configured.Out \cup AllocatedOut
             /\ PolledReset => configured' = [In |-> AllocatedIn,
                                              Out |-> AllocatedOut]
             /\ daintmsk'.iepm = daintmsk.iepm \cup AllocatedIn]_vars

\* C12 witness: a poll has seen USBRST after the endpoints of both
\* directions had been configured by reset(), and they are deconfigured
\* with their slots still occupied.
C12_Witness ==
    /\ PolledReset
    /\ fifo.programmed
    /\ configured = [In |-> {}, Out |-> {}]
    /\ AllocatedIn = {0}
    /\ AllocatedOut = {0, 1}
    /\ bitmap_in = {0}
    /\ bitmap_out = {0, 1}
    /\ "ENUMDNE" \in last.sts

(* ------------------------------------------------------------------ *)
(* Properties of the order of the steps of poll                         *)
(* ------------------------------------------------------------------ *)

\* What the record of a poll shows when the data path was not executed.
NoDataPath(r) ==
    /\ r.entry = None
    /\ ~r.popped
    /\ r.fill = "none"
    /\ r.rearm = {}
    /\ ~r.txflush
    /\ r.ep_out = {}
    /\ r.ep_in_complete = {}
    /\ r.ep_setup = {}

\* C13: the data path is executed only in a poll that read none of USBRST,
\* ENUMDNE, WKUPINT and USBSUSP as set; a poll that handles a reset reads no
\* status entry, pops none, fills no buffer, re-arms no endpoint and
\* acknowledges no XFRC latch.
C13_DataPathOnlyWhenQuiet ==
    (last.op = "poll" /\ last.sts \cap EventBits # {}) => NoDataPath(last)

\* The event bit a poll result stands for.
BitOf(res) ==
    IF res = "Reset" THEN "ENUMDNE"
    ELSE IF res = "Resume" THEN "WKUPINT"
    ELSE "USBSUSP"

\* C14: with USBRST clear, poll reports one event by fixed priority (Reset
\* for ENUMDNE, else Resume for WKUPINT, else Suspend for USBSUSP) and
\* acknowledges the bit of that event only, so the lower-priority bits stay
\* latched; under repeated polling every latched ENUMDNE, WKUPINT or
\* USBSUSP is reported by a later poll.
C14_PriorityNoLoss ==
    /\ [][(last'.op = "poll" /\ "USBRST" \notin last'.sts)
            => /\ last'.res = IF "ENUMDNE" \in gintsts THEN "Reset"
                              ELSE IF "WKUPINT" \in gintsts THEN "Resume"
                              ELSE IF "USBSUSP" \in gintsts THEN "Suspend"
                              ELSE last'.res
               /\ (gintsts \cap {"ENUMDNE", "WKUPINT", "USBSUSP"} = {})
                     <=> last'.res \in {"Data", "None"}
               /\ gintsts' = IF last'.res \in {"Data", "None"}
                             THEN gintsts
                             ELSE gintsts \ {BitOf(last'.res)}]_vars
    /\ \A res \in {"Reset", "Resume", "Suspend"} :
          (BitOf(res) \in gintsts)
             ~> (last.op = "poll" /\ last.res = res /\ BitOf(res) \notin gintsts)

\* C14 witness: a poll read ENUMDNE and USBSUSP together, reported Reset
\* and left USBSUSP latched.
C14_Witness ==
    /\ last.op = "poll"
    /\ last.res = "Reset"
    /\ last.sts = {"ENUMDNE", "USBSUSP"}
    /\ gintsts = {"USBSUSP"}

(* ------------------------------------------------------------------ *)
(* Properties of the report of poll                                     *)
(* ------------------------------------------------------------------ *)

\* The last call was a poll that went through the data path.
PolledData == last.op = "poll" /\ last.res \in {"Data", "None"}

\* C15: a data-path poll returns Data exactly when one of the IN-complete,
\* OUT and SETUP masks it computed is not zero, and None when all three
\* are; a poll that reports Reset, Resume or Suspend carries no mask.
C15_DataIffMask ==
    /\ PolledData =>
          ((last.res = "Data")
              <=> (last.ep_in_complete \cup last.ep_out \cup last.ep_setup # {}))
    /\ (last.op = "poll" /\ ~PolledData)
          => (last.ep_in_complete \cup last.ep_out \cup last.ep_setup = {})

\* C15 witness: a Data event whose only non-zero mask is the SETUP mask.
C15_Witness ==
    /\ PolledData
    /\ last.res = "Data"
    /\ last.ep_in_complete = {}
    /\ last.ep_out = {}
    /\ last.ep_setup = {0}

\* C16: after every data-path poll, each allocated OUT endpoint whose
\* buffer is DataOut has its bit in the OUT mask and each whose buffer is
\* DataSetup has its bit in the SETUP mask, whether or not the poll read a
\* status entry for it; so a buffer that is not drained is reported by
\* every data-path poll.
C16_BufferStateReported ==
    PolledData =>
        \A n \in AllocatedOut :
            /\ buffer[n].state = "DataOut" => n \in last.ep_out
            /\ buffer[n].state = "DataSetup" => n \in last.ep_setup

\* C16 witness: a poll that read no status entry reported endpoint 0 for
\* the SETUP packet still in its buffer.
C16_Witness ==
    /\ PolledData
    /\ last.entry = None
    /\ buffer[0].state = "DataSetup"
    /\ last.ep_setup = {0}
    /\ last.res = "Data"

(* ------------------------------------------------------------------ *)
(* Properties of a failed buffer request                                *)
(* ------------------------------------------------------------------ *)

\* The numbers of a direction whose bit is set and whose slot is empty.
Consumed(dir) == BitmapOf(dir) \ AllocatedOf(dir)

\* C17: when the memory allocator rejects the buffer request, alloc_ep
\* returns its error, stores nothing in a slot, leaves the memory allocator
\* as it was and leaves the bit of the chosen number set; from then on an
\* explicit request for that number in that direction returns
\* InvalidEndpoint, no allocation returns it, and the number stays
\* consumed for good.
C17_FailureConsumesNumber ==
    /\ [][AllocStep =>
            LET before == BitmapOf(last'.dir)
                after == IF last'.dir = "In" THEN bitmap_in' ELSE bitmap_out'
                chosen == IF IsSome(last'.req) THEN Unwrap(last'.req)
                          ELSE LowestFree(before)
            IN  /\ last'.res = "EndpointMemoryOverflow" =>
                      /\ UNCHANGED << endpoints_in, endpoints_out, memory >>
                      /\ chosen \in Numbers \ before
                      /\ after = before \cup {chosen}
                /\ (IsSome(last'.req) /\ Unwrap(last'.req) \in Consumed(last'.dir))
                      => last'.res = "InvalidEndpoint"
                /\ last'.res = "Ok" => last'.num \notin Consumed(last'.dir)]_vars
    /\ [][\A n \in Numbers :
            /\ (n \in bitmap_in /\ ~IsSome(endpoints_in[n]))
                  => (n \in bitmap_in' /\ ~IsSome(endpoints_in'[n]))
            /\ (n \in bitmap_out /\ ~IsSome(endpoints_out[n]))
                  => (n \in bitmap_out' /\ ~IsSome(endpoints_out'[n]))]_vars

\* C17 witness: number 1 of the OUT direction was consumed by a failed
\* automatic allocation, and the next automatic allocation returned 2.
C17_Witness ==
    /\ last.op = "alloc_ep"
    /\ last.dir = "Out"
    /\ last.req = None
    /\ last.res = "Ok"
    /\ last.num = 2
    /\ 1 \in Consumed("Out")

(* ------------------------------------------------------------------ *)
(* Properties of the re-arm of an OUT endpoint                          *)
(* ------------------------------------------------------------------ *)

\* C18: CNAK + EPENA follows the silicon revision.  With core id 0x1100 or
\* 0x1200 it is written only by a poll that handles an OUT-complete or
\* SETUP-complete entry; with core id 0x2000 or 0x2100 only by a poll that
\* popped an OUT-received or SETUP-received entry for an Empty buffer, and
\* only after the copy into that buffer succeeded; no poll does both.
C18_RearmBySilicon ==
    last.op = "poll" =>
        /\ "complete" \in last.rearm =>
              /\ core_id \in {4352, 4608}
              /\ IsSome(last.entry)
              /\ Unwrap(last.entry).pktsts
                    \in {PKTSTS_OUT_COMPLETE, PKTSTS_SETUP_COMPLETE}
              /\ last.popped
        /\ "copy" \in last.rearm =>
              /\ core_id \in {8192, 8448}
              /\ IsDataEntry(last.entry)
              /\ last.popped
              /\ last.fill = "ok"
              /\ buffer[Unwrap(last.entry).epnum].state = TagOf(Unwrap(last.entry))
        /\ last.rearm # {"complete", "copy"}

\* The same with the copy attempted, whatever fill_from_fifo answered.
C18_RearmAfterAttempt ==
    last.op = "poll" =>
        /\ "complete" \in last.rearm =>
              /\ core_id \in {4352, 4608}
              /\ IsSome(last.entry)
              /\ Unwrap(last.entry).pktsts
                    \in {PKTSTS_OUT_COMPLETE, PKTSTS_SETUP_COMPLETE}
              /\ last.popped
        /\ "copy" \in last.rearm =>
              /\ core_id \in {8192, 8448}
              /\ IsDataEntry(last.entry)
              /\ last.popped
              /\ last.fill \in {"ok", "err"}
        /\ last.rearm # {"complete", "copy"}

(* ------------------------------------------------------------------ *)
(* Properties of the receive FIFO                                       *)
(* ------------------------------------------------------------------ *)

\* The head of the receive FIFO has gone: a poll popped it or a reset
\* flushed the FIFO.
HeadGone == (last.op = "poll" /\ last.popped) \/ rxfifo = << >>

\* C19: the receive FIFO never stalls for good.  Whatever status code and
\* endpoint number the entry at its head carries, an allocated OUT endpoint
\* or not, it is eventually popped when poll is called again and again and
\* every reported endpoint is read.
C19_FifoNeverStalls == (rxfifo # << >>) ~> HeadGone

\* The same for the entries that are not OUT-received or SETUP-received
\* entries of an endpoint number without an OUT endpoint.
C19_AllocatedNeverStalls ==
    (/\ rxfifo # << >>
     /\ \/ Head(rxfifo).epnum \in AllocatedOut
        \/ Head(rxfifo).pktsts \notin {PKTSTS_OUT_RECEIVED, PKTSTS_SETUP_RECEIVED})
        ~> HeadGone

\* C20: every bit of the OUT or SETUP mask of a Data event belongs to an
\* endpoint number allocated in the OUT direction, so that a read of that
\* address does not return InvalidEndpoint, and every bit of the
\* IN-complete mask belongs to an allocated IN endpoint.
C20_ReportedAreAllocated ==
    (last.op = "poll" /\ last.res = "Data") =>
        /\ last.ep_out \subseteq AllocatedOut
        /\ last.ep_setup \subseteq AllocatedOut
        /\ last.ep_in_complete \subseteq AllocatedIn

\* The same with the endpoint number of the status entry read set aside.
C20_ScannedAreAllocated ==
    (last.op = "poll" /\ last.res = "Data") =>
        LET read == IF IsSome(last.entry) THEN {Unwrap(last.entry).epnum} ELSE {}
        IN  /\ last.ep_out \ read \subseteq AllocatedOut
            /\ last.ep_setup \ read \subseteq AllocatedOut
            /\ last.ep_in_complete \subseteq AllocatedIn

(* ------------------------------------------------------------------ *)
(* Properties of the two receive masks                                  *)
(* ------------------------------------------------------------------ *)

\* C21 (as claimed): in every Data event no endpoint number has its bit in
\* both the OUT mask and the SETUP mask.
C21_OneKindOnly ==
    (last.op = "poll" /\ last.res = "Data") => last.ep_out \cap last.ep_setup = {}

\* The poll read an OUT-received or SETUP-received entry for allocated OUT
\* endpoint n while the buffer of n holds a packet of the other kind.
OtherKindBuffered(n) ==
    /\ IsDataEntry(last.entry)
    /\ Unwrap(last.entry).epnum = n
    /\ buffer[n].state \in {"DataOut", "DataSetup"}
    /\ buffer[n].state # TagOf(Unwrap(last.entry))

\* C21 (amended): in a Data event an endpoint number has its bit in both
\* masks exactly when the poll read an OUT-received entry for it while its
\* buffer holds DataSetup, or a SETUP-received entry while its buffer holds
\* DataOut: the entry gives one bit, the buffer the other, and the entry
\* is left unpopped.  Every other endpoint is reported under one kind only.
C21_BothKindsWhenDeferred ==
    (last.op = "poll" /\ last.res = "Data") =>
        /\ \A n \in Numbers :
              (n \in last.ep_out \cap last.ep_setup) <=> OtherKindBuffered(n)
        /\ last.ep_out \cap last.ep_setup # {} => ~last.popped

\* C21 witness: a poll read an OUT-received entry for endpoint 0 behind a
\* DataSetup buffer and reported endpoint 0 in both masks.
C21_Witness ==
    /\ last.op = "poll"
    /\ last.res = "Data"
    /\ IsSome(last.entry)
    /\ Unwrap(last.entry).pktsts = PKTSTS_OUT_RECEIVED
    /\ Unwrap(last.entry).epnum = 0
    /\ buffer[0].state = "DataSetup"
    /\ 0 \in last.ep_out \cap last.ep_setup

====
